---- MODULE Spec2Model ----
(***************************************************************************)
(* NotesFlow backend (src/server.js): registration, login, password reset  *)
(* and ownership-scoped notes behind a bearer-token gate.                   *)
(*                                                                         *)
(* The database (users, notes), the clock, the tokens that clients hold,   *)
(* and the handlers suspended at an await between a lookup and a save are  *)
(* the state.  `last` is the request handled by the most recent step and   *)
(* the response it sent (status 0: no response sent by this step).         *)
(***************************************************************************)
EXTENDS Integers, FiniteSets, Sequences, Bags, TLC

VARIABLES users, notes, noteSeq, now, ticks, issued, pending, last

vars == <<users, notes, noteSeq, now, ticks, issued, pending, last>>

(* The clock and the number of jumps it has made. *)
time == <<now, ticks>>

(* ------------------------------ bounds --------------------------------- *)
MaxTicks == 1
MaxNotes == 2
MaxTokens == 1
MaxInFlight == 2
(* notes created where the credential, not the store, is under test *)
MaxGateNotes == 1

Emails == {"a@x", "b@x"}
Passwords == {"p1", "p2"}
Salts == {"s1", "s2"}
Titles == {"t1", "t2"}
Contents == {"c1"}

(* A request field that is missing or empty is falsy in the handlers. *)
Missing == ""

(* ------------------------- program constants --------------------------- *)
JWT_SECRET == "notesflow_secret"
(* expiresIn, in hours *)
SessionTTL == 168
ResetTTL == 1

(* The clock is sampled after at most MaxTicks jumps of one reset TTL, one *)
(* session TTL, or both.                                                   *)
TickSteps == {ResetTTL, SessionTTL, SessionTTL + ResetTTL}

(* --------------------------- credential hasher ------------------------- *)
(* bcrypt: the stored secret embeds the salt; compare recomputes with it. *)
bcryptHash(password, salt) == [salt |-> salt, digest |-> <<salt, password>>]

hashPassword(password, salt) == bcryptHash(password, salt)

(* faulty variant: the promise of bcrypt.compare is tested, not its value *)
comparePasswordUnawaited(password, hash) == TRUE

comparePassword(password, hash) == bcryptHash(password, hash.salt) = hash

(* ------------------------------ token codec ---------------------------- *)
NoEmail == "<absent>"

(* HMAC over the payload with a key: recomputed by verify. *)
Signature(id, email, iat, exp, key) == <<key, id, email, iat, exp>>

jwtSign(id, email, key, ttl, t) ==
    [shape |-> "jwt", id |-> id, email |-> email, iat |-> t, exp |-> t + ttl,
     sig |-> Signature(id, email, t, t + ttl, key)]

NoToken == [shape |-> "none", id |-> 0, email |-> NoEmail, iat |-> 0, exp |-> 0,
            sig |-> <<"", 0, NoEmail, 0, 0>>]

Garbage == [NoToken EXCEPT !.shape = "garbage"]

(* faulty variant: the payload's id is read from a field the document lacks *)
generateTokenNoId(user, t) == jwtSign(0, user.email, JWT_SECRET, SessionTTL, t)

generateToken(user, t) == jwtSign(user.id, user.email, JWT_SECRET, SessionTTL, t)

resetTokenFor(user, t) == jwtSign(user.id, NoEmail, JWT_SECRET, ResetTTL, t)

(* faulty variant: the expiry is not looked at *)
jwtVerifyIgnoreExpiration(token, key, t) ==
    IF token.shape # "jwt" THEN "JsonWebTokenError"
    ELSE IF token.sig # Signature(token.id, token.email, token.iat, token.exp, key)
         THEN "JsonWebTokenError"
    ELSE "ok"

(* jwt.verify: structure, then signature, then expiry. *)
jwtVerify(token, key, t) ==
    IF token.shape # "jwt" THEN "JsonWebTokenError"
    ELSE IF token.sig # Signature(token.id, token.email, token.iat, token.exp, key)
         THEN "JsonWebTokenError"
    ELSE IF t >= token.exp THEN "TokenExpiredError"
    ELSE "ok"

(* ------------------------------ documents ------------------------------ *)
NoUser == [id |-> 0, email |-> NoEmail]
NoNote == [id |-> 0, title |-> Missing, content |-> Missing, owner |-> 0, createdAt |-> 0]

(* The {_id, email} projection every identity-bearing response is built from. *)
PublicUser(u) == [id |-> u.id, email |-> u.email]

(* User.findOne({ email }) and User.findById(id): the matching documents. *)
UserFindByEmail(email) == {u \in users : u.email = email}
UserFindById(id) == {u \in users : u.id = id}

(* faulty variant: the filter names the _id alone *)
NoteMatchIdOnly(noteId, owner) == {n \in notes : n.id = noteId}

(* Note.findOne / findOneAndDelete filter: _id and owner together. *)
NoteMatch(noteId, owner) == {n \in notes : n.id = noteId /\ n.owner = owner}

(* The unique index on email: an insert of a second document with the same *)
(* email is refused by the database (E11000).                              *)
UniqueEmailFree(email) == UserFindByEmail(email) = {}

(* ------------------------- requests and responses ---------------------- *)
NoHeader == [scheme |-> "none", token |-> NoToken]

Req == [op |-> "none", scheme |-> "none", cred |-> NoToken, email |-> Missing,
        password |-> Missing, noteId |-> 0, title |-> Missing, content |-> Missing,
        status |-> 0, msg |-> "", uid |-> 0, token |-> NoToken, user |-> NoUser,
        notes |-> <<>>]

(* A handler suspended between its lookup and its save. *)
Suspended(op, email, password, uid, title, content, doc) ==
    [op |-> op, email |-> email, password |-> password, uid |-> uid,
     title |-> title, content |-> content, doc |-> doc]

(* Tokens a client can put in a request: the ones it holds, one of them    *)
(* with its expiry pushed out, one signed with a guessed key, and a string *)
(* that is no JWT.                                                         *)
Forged == jwtSign(1, "a@x", "guessed_secret", SessionTTL, 0)
Tampered(t) == [t EXCEPT !.exp = t.exp + SessionTTL]
Presentable == issued \cup {Tampered(t) : t \in issued} \cup {Forged, Garbage}

Headers ==
    {NoHeader} \cup {[scheme |-> "Basic", token |-> t] : t \in issued}
               \cup {[scheme |-> "Bearer", token |-> t] : t \in Presentable}

(* The clients keep a token they are sent, perhaps in place of one they   *)
(* held, or drop it; they hold at most MaxTokens.                          *)
Keep(t) ==
    /\ issued' \in {issued, issued \cup {t}} \cup {(issued \ {x}) \cup {t} : x \in issued}
    /\ Cardinality(issued') <= MaxTokens

(* ---------------------------- authentication gate ---------------------- *)
(* faulty variant: only !auth is tested *)
AnyHeader(hdr) == hdr.scheme # "none"

(* !auth || !auth.startsWith("Bearer ") *)
BearerHeader(hdr) == hdr.scheme = "Bearer"

(* authMiddleware: the context it binds, or the 401 it answers with. *)
authMiddleware(hdr, t) ==
    IF ~BearerHeader(hdr)
    THEN [pass |-> FALSE, status |-> 401, msg |-> "Unauthorized", id |-> 0, email |-> NoEmail]
    ELSE IF jwtVerify(hdr.token, JWT_SECRET, t) = "ok"
         THEN [pass |-> TRUE, status |-> 0, msg |-> "", id |-> hdr.token.id,
               email |-> hdr.token.email]
         ELSE [pass |-> FALSE, status |-> 401, msg |-> "Invalid token", id |-> 0,
               email |-> NoEmail]

(* A step that answers without touching the database or suspending. *)
Answer(r) ==
    /\ last' = r
    /\ UNCHANGED <<users, notes, noteSeq, time, issued, pending>>

Rejected(r, gate) == Answer([r EXCEPT !.status = gate.status, !.msg = gate.msg])

(* ------------------------------- register ------------------------------ *)
(* faulty variant: the lookup result is not tested *)
RegisterExistsSkipped(email) == FALSE

(* exists = await User.findOne({ email }) *)
RegisterExists(email) == UserFindByEmail(email) # {}

(* POST /api/auth/register up to the await of user.save(). *)
Register(email, password) ==
    LET r == [Req EXCEPT !.op = "register", !.email = email, !.password = password] IN
    IF email = Missing \/ password = Missing
    THEN Answer([r EXCEPT !.status = 400, !.msg = "Email and password required"])
    ELSE IF RegisterExists(email)
    THEN Answer([r EXCEPT !.status = 409, !.msg = "User already exists"])
    ELSE /\ pending' = pending (+) SetToBag({Suspended("register", email, password, 0,
                                                    Missing, Missing, NoNote)})
         /\ last' = r
         /\ UNCHANGED <<users, notes, noteSeq, time, issued>>

(* hashPassword, user.save(), generateToken and the 201; a save refused by *)
(* the unique index lands in the catch: 500.                               *)
RegisterSave(p, salt) ==
    LET r == [Req EXCEPT !.op = "registerSave", !.email = p.email, !.password = p.password]
        user == [id |-> Cardinality(users) + 1, email |-> p.email,
                 password |-> hashPassword(p.password, salt)]
    IN
    /\ BagIn(p, pending)
    /\ p.op = "register"
    /\ pending' = pending (-) SetToBag({p})
    /\ IF UniqueEmailFree(p.email)
       THEN /\ users' = users \cup {user}
            /\ last' = [r EXCEPT !.status = 201, !.token = generateToken(user, now),
                                 !.user = PublicUser(user)]
            /\ Keep(generateToken(user, now))
       ELSE /\ last' = [r EXCEPT !.status = 500, !.msg = "E11000 duplicate key"]
            /\ UNCHANGED <<users, issued>>
    /\ UNCHANGED <<notes, noteSeq, time>>

(* -------------------------------- login -------------------------------- *)
(* faulty variant: an unknown email is told apart *)
LoginUserNotFound == [status |-> 404, msg |-> "User not found"]

(* The two refusals of login. *)
LoginNoUser == [status |-> 401, msg |-> "Invalid credentials"]

LoginBadPassword == [status |-> 401, msg |-> "Invalid credentials"]

Login(email, password) ==
    LET r == [Req EXCEPT !.op = "login", !.email = email, !.password = password]
        found == UserFindByEmail(email)
    IN
    IF email = Missing \/ password = Missing
    THEN Answer([r EXCEPT !.status = 400, !.msg = "Email and password required"])
    ELSE IF found = {}
    THEN Answer([r EXCEPT !.status = LoginNoUser.status, !.msg = LoginNoUser.msg])
    ELSE LET user == CHOOSE u \in found : TRUE IN
         IF ~comparePassword(password, user.password)
         THEN Answer([r EXCEPT !.status = LoginBadPassword.status,
                               !.msg = LoginBadPassword.msg])
         ELSE /\ last' = [r EXCEPT !.status = 200, !.token = generateToken(user, now),
                                   !.user = PublicUser(user)]
              /\ Keep(generateToken(user, now))
              /\ UNCHANGED <<users, notes, noteSeq, time, pending>>

(* ---------------------------- forgot-password -------------------------- *)
(* The reset token goes to the server log, from where it is delivered. *)
ForgotAck == "If the email exists, instructions will be sent"

(* faulty variant: an unknown email is told apart *)
ForgotUserNotFound == [status |-> 404, msg |-> "User not found"]

(* "Don't reveal whether a user exists" *)
ForgotNoUser == [status |-> 200, msg |-> ForgotAck]

ForgotPassword(email) ==
    LET r == [Req EXCEPT !.op = "forgot", !.email = email]
        found == UserFindByEmail(email)
    IN
    IF email = Missing
    THEN Answer([r EXCEPT !.status = 400, !.msg = "Email required"])
    ELSE IF found = {}
    THEN Answer([r EXCEPT !.status = ForgotNoUser.status, !.msg = ForgotNoUser.msg])
    ELSE LET user == CHOOSE u \in found : TRUE IN
         /\ last' = [r EXCEPT !.status = 200, !.msg = ForgotAck]
         /\ Keep(resetTokenFor(user, now))
         /\ UNCHANGED <<users, notes, noteSeq, time, pending>>

(* ----------------------------- reset-password -------------------------- *)
(* The catch answers 401 only for err.name = "JsonWebTokenError". *)
ResetCatch(errName) ==
    IF errName = "JsonWebTokenError"
    THEN [status |-> 401, msg |-> "Invalid or expired token"]
    ELSE [status |-> 500, msg |-> "Could not reset password"]

ResetPassword(token, password, salt) ==
    LET r == [Req EXCEPT !.op = "reset", !.scheme = "body", !.cred = token,
                         !.password = password]
        verdict == jwtVerify(token, JWT_SECRET, now)
        found == UserFindById(token.id)
    IN
    IF token = NoToken \/ password = Missing
    THEN Answer([r EXCEPT !.status = 400, !.msg = "Token and password required"])
    ELSE IF verdict # "ok"
    THEN Answer([r EXCEPT !.status = ResetCatch(verdict).status,
                          !.msg = ResetCatch(verdict).msg])
    ELSE IF found = {}
    THEN Answer([r EXCEPT !.status = 404, !.msg = "User not found"])
    ELSE LET user == CHOOSE u \in found : TRUE IN
         /\ users' = (users \ {user})
                       \cup {[user EXCEPT !.password = hashPassword(password, salt)]}
         /\ last' = [r EXCEPT !.status = 200, !.msg = "Password updated successfully",
                              !.uid = user.id]
         /\ UNCHANGED <<notes, noteSeq, time, issued, pending>>

(* ---------------------------------- me --------------------------------- *)
(* faulty variant: the document is returned without a projection *)
SelectAll(u) == u

(* .select("_id email") *)
SelectIdEmail(u) == [id |-> u.id, email |-> u.email]

Me(hdr) ==
    LET r == [Req EXCEPT !.op = "me", !.scheme = hdr.scheme, !.cred = hdr.token]
        gate == authMiddleware(hdr, now)
        found == UserFindById(gate.id)
    IN
    IF ~gate.pass THEN Rejected(r, gate)
    ELSE Answer([r EXCEPT !.status = 200, !.uid = gate.id,
                          !.user = IF found = {} THEN NoUser
                                   ELSE SelectIdEmail(CHOOSE u \in found : TRUE)])

(* --------------------------------- notes ------------------------------- *)
(* .sort({ createdAt: -1 }): the orders the sort may return (ties in any order). *)
SortedByCreatedAtDesc(S) ==
    {q \in [1..Cardinality(S) -> S] :
        /\ \A i, j \in 1..Cardinality(S) : i # j => q[i] # q[j]
        /\ \A i, j \in 1..Cardinality(S) : i < j => q[i].createdAt >= q[j].createdAt}

(* faulty variant: the filter is empty *)
NoteFindAll(owner) == notes

(* Note.find({ owner }) *)
NoteFindByOwner(owner) == {n \in notes : n.owner = owner}

ListNotes(hdr) ==
    LET r == [Req EXCEPT !.op = "list", !.scheme = hdr.scheme, !.cred = hdr.token]
        gate == authMiddleware(hdr, now)
    IN
    IF ~gate.pass THEN Rejected(r, gate)
    ELSE \E q \in SortedByCreatedAtDesc(NoteFindByOwner(gate.id)) :
            Answer([r EXCEPT !.status = 200, !.uid = gate.id, !.notes = q])

(* faulty variant: the identifier is taken from the clock *)
ObjectIdFromClock == now + 1

(* new Note(...): the driver gives the document an identifier never given *)
(* out before.                                                             *)
NewObjectId == noteSeq + 1

(* faulty variant: only the title is required *)
CreateInvalidTitleOnly(title, content) == title = Missing

(* !title || !content *)
CreateInvalid(title, content) == title = Missing \/ content = Missing

CreateNote(hdr, title, content) ==
    LET r == [Req EXCEPT !.op = "create", !.scheme = hdr.scheme, !.cred = hdr.token,
                         !.title = title, !.content = content]
        gate == authMiddleware(hdr, now)
        note == [id |-> NewObjectId, title |-> title, content |-> content,
                 owner |-> gate.id, createdAt |-> now]
    IN
    IF ~gate.pass THEN Rejected(r, gate)
    ELSE IF CreateInvalid(title, content)
    THEN Answer([r EXCEPT !.status = 400, !.msg = "Title and content required",
                          !.uid = gate.id])
    ELSE /\ notes' = notes \cup {note}
         /\ noteSeq' = noteSeq + 1
         /\ last' = [r EXCEPT !.status = 201, !.uid = gate.id, !.noteId = note.id,
                              !.notes = <<note>>]
         /\ UNCHANGED <<users, time, issued, pending>>

(* PUT /api/notes/:id up to the await of note.save(). *)
UpdateNote(hdr, noteId, title, content) ==
    LET r == [Req EXCEPT !.op = "update", !.scheme = hdr.scheme, !.cred = hdr.token,
                         !.noteId = noteId, !.title = title, !.content = content]
        gate == authMiddleware(hdr, now)
        found == NoteMatch(noteId, gate.id)
    IN
    IF ~gate.pass THEN Rejected(r, gate)
    ELSE IF found = {}
    THEN Answer([r EXCEPT !.status = 404, !.msg = "Note not found", !.uid = gate.id])
    ELSE /\ pending' = pending (+) SetToBag({Suspended("update", Missing, Missing, gate.id,
                                           title, content, CHOOSE n \in found : TRUE)})
         /\ last' = [r EXCEPT !.uid = gate.id]
         /\ UNCHANGED <<users, notes, noteSeq, time, issued>>

(* faulty variant: a save that finds no document writes the loaded one back *)
SaveOfMissingUpserts(doc) == [status |-> 200, msg |-> "", notes |-> notes \cup {doc}]

(* save() of a document that is no longer stored: DocumentNotFoundError, *)
(* which the catch answers with 500; nothing is written.                  *)
SaveOfMissing(doc) == [status |-> 500, msg |-> "No document found", notes |-> notes]

(* faulty variant: the stored document is replaced by one built from the   *)
(* request, so the owner is dropped and createdAt takes its default again. *)
SetModifiedReplaces(old, title, content) ==
    [id |-> old.id, title |-> title, content |-> content, owner |-> 0, createdAt |-> now + 1]

(* updateOne({ _id }, { $set: modified paths }): title and content are the *)
(* only paths the handler assigns; the others keep the stored value.       *)
SetModified(old, title, content) == [old EXCEPT !.title = title, !.content = content]

(* note.save() of a loaded document: $set of the paths that were modified, *)
(* sent to the document with that _id; when none was modified only the     *)
(* document's existence is looked up.                                      *)
UpdateSave(p) ==
    LET doc == [p.doc EXCEPT !.title = p.title, !.content = p.content]
        r == [Req EXCEPT !.op = "updateSave", !.noteId = p.doc.id, !.title = p.title,
                         !.content = p.content, !.uid = p.uid]
        stored == {n \in notes : n.id = p.doc.id}
        titleSet == p.title # p.doc.title
        contentSet == p.content # p.doc.content
    IN
    /\ BagIn(p, pending)
    /\ p.op = "update"
    /\ pending' = pending (-) SetToBag({p})
    /\ IF stored = {}
       THEN /\ last' = [r EXCEPT !.status = SaveOfMissing(doc).status,
                                 !.msg = SaveOfMissing(doc).msg,
                                 !.notes = IF SaveOfMissing(doc).status = 200
                                           THEN <<doc>> ELSE <<>>]
            /\ notes' = SaveOfMissing(doc).notes
       ELSE IF ~titleSet /\ ~contentSet
       THEN /\ last' = [r EXCEPT !.status = 200, !.notes = <<doc>>]
            /\ UNCHANGED notes
       ELSE LET old == CHOOSE n \in stored : TRUE IN
            /\ notes' = (notes \ {old})
                          \cup {SetModified(old, IF titleSet THEN p.title ELSE old.title,
                                             IF contentSet THEN p.content ELSE old.content)}
            /\ last' = [r EXCEPT !.status = 200, !.notes = <<doc>>]
    /\ UNCHANGED <<users, noteSeq, time, issued>>

DeleteNote(hdr, noteId) ==
    LET r == [Req EXCEPT !.op = "delete", !.scheme = hdr.scheme, !.cred = hdr.token,
                         !.noteId = noteId]
        gate == authMiddleware(hdr, now)
        found == NoteMatch(noteId, gate.id)
    IN
    IF ~gate.pass THEN Rejected(r, gate)
    ELSE IF found = {}
    THEN Answer([r EXCEPT !.status = 404, !.msg = "Note not found", !.uid = gate.id])
    ELSE /\ notes' = notes \ found
         /\ last' = [r EXCEPT !.status = 200, !.msg = "Note deleted successfully",
                              !.uid = gate.id]
         /\ UNCHANGED <<users, noteSeq, time, issued, pending>>

(* --------------------------------- clock ------------------------------- *)
Tick(d) ==
    /\ ticks < MaxTicks
    /\ ticks' = ticks + 1
    /\ now' = now + d
    /\ last' = [Req EXCEPT !.op = "tick"]
    /\ UNCHANGED <<users, notes, noteSeq, issued, pending>>

(* ----------------------------- specification --------------------------- *)
Init ==
    /\ users = {}
    /\ notes = {}
    /\ noteSeq = 0
    /\ now = 0
    /\ ticks = 0
    /\ issued = {}
    /\ pending = EmptyBag
    /\ last = Req

(* The identifiers a request can name: those given out so far and one    *)
(* that was never given out.                                               *)
NoteIds == {n \in 1..MaxNotes : n <= noteSeq + 1}

(* Requests arrive while fewer than MaxInFlight handlers are suspended,   *)
(* and notes are created until MaxNotes identifiers are used.              *)
Room == BagCardinality(pending) < MaxInFlight
Fresh == noteSeq < MaxNotes

(* Every request any client can send, any suspended handler resuming, the *)
(* clock advancing.                                                        *)
Next ==
    \/ \E e \in Emails \cup {Missing}, p \in Passwords \cup {Missing} : Room /\ Register(e, p)
    \/ \E p \in BagToSet(pending), s \in Salts : RegisterSave(p, s)
    \/ \E e \in Emails \cup {Missing}, p \in Passwords \cup {Missing} : Login(e, p)
    \/ \E e \in Emails \cup {Missing} : ForgotPassword(e)
    \/ \E t \in Presentable \cup {NoToken}, p \in Passwords \cup {Missing}, s \in Salts :
          ResetPassword(t, p, s)
    \/ \E h \in Headers : Me(h)
    \/ \E h \in Headers : ListNotes(h)
    \/ \E h \in Headers, t \in Titles \cup {Missing}, c \in Contents \cup {Missing} :
          Fresh /\ CreateNote(h, t, c)
    \/ \E h \in Headers, n \in NoteIds, t \in Titles \cup {Missing},
          c \in Contents \cup {Missing} : Room /\ UpdateNote(h, n, t, c)
    \/ \E p \in BagToSet(pending) : UpdateSave(p)
    \/ \E h \in Headers, n \in NoteIds : DeleteNote(h, n)
    \/ \E d \in TickSteps : Tick(d)

Spec == Init /\ [][Next]_vars

(* One request at a time: a request arrives when no handler is suspended. *)
Idle == pending = EmptyBag

(* The account and reset flows, one request at a time: no notes, no       *)
(* protected route; the clock moves by reset TTLs.                         *)
NextAuth ==
    \/ \E e \in Emails \cup {Missing}, p \in Passwords \cup {Missing} : Idle /\ Register(e, p)
    \/ \E p \in BagToSet(pending), s \in {"s1"} : RegisterSave(p, s)
    \/ \E e \in Emails \cup {Missing}, p \in Passwords \cup {Missing} : Idle /\ Login(e, p)
    \/ \E e \in Emails \cup {Missing} : Idle /\ ForgotPassword(e)
    \/ \E t \in Presentable \cup {NoToken}, p \in Passwords \cup {Missing}, s \in Salts :
          Idle /\ ResetPassword(t, p, s)
    \/ \E d \in {ResetTTL} : Idle /\ Tick(d)

SpecAuth == Init /\ [][NextAuth]_vars

(* The gate in front of every protected route, one request at a time,     *)
(* with every kind of credential, one account and one title per operation. *)
NextGate ==
    \/ \E e \in {"a@x"}, p \in {"p1"} : Idle /\ Register(e, p)
    \/ \E p \in BagToSet(pending), s \in {"s1"} : RegisterSave(p, s)
    \/ \E e \in {"a@x"}, p \in {"p1"} : Idle /\ Login(e, p)
    \/ \E e \in {"a@x"} : Idle /\ ForgotPassword(e)
    \/ \E h \in Headers : Idle /\ Me(h)
    \/ \E h \in Headers : Idle /\ ListNotes(h)
    \/ \E h \in Headers, t \in {"t1"}, c \in {"c1"} :
          Idle /\ noteSeq < MaxGateNotes /\ CreateNote(h, t, c)
    \/ \E h \in Headers, n \in 1..MaxGateNotes, t \in {"t2"}, c \in {"c1"} :
          Idle /\ UpdateNote(h, n, t, c)
    \/ \E p \in BagToSet(pending) : UpdateSave(p)
    \/ \E h \in Headers, n \in 1..MaxGateNotes : Idle /\ DeleteNote(h, n)
    \/ \E d \in {SessionTTL, SessionTTL + ResetTTL} : Idle /\ Tick(d)

SpecGate == Init /\ [][NextGate]_vars

(* The note store under well-formed credentials of two accounts, one      *)
(* request at a time, the clock standing still.                            *)
BearerHeaders == {[scheme |-> "Bearer", token |-> t] : t \in issued}

NextNotes ==
    \/ \E e \in Emails, p \in {"p1"} : Idle /\ Register(e, p)
    \/ \E p \in BagToSet(pending), s \in {"s1"} : RegisterSave(p, s)
    \/ \E e \in Emails, p \in {"p1"} : Idle /\ Login(e, p)
    \/ \E h \in BearerHeaders : Idle /\ ListNotes(h)
    \/ \E h \in BearerHeaders, t \in Titles \cup {Missing}, c \in Contents \cup {Missing} :
          Idle /\ Fresh /\ CreateNote(h, t, c)
    \/ \E h \in BearerHeaders, n \in NoteIds, t \in Titles \cup {Missing}, c \in Contents :
          Idle /\ UpdateNote(h, n, t, c)
    \/ \E p \in BagToSet(pending) : UpdateSave(p)
    \/ \E h \in BearerHeaders, n \in NoteIds : Idle /\ DeleteNote(h, n)

SpecNotes == Init /\ [][NextNotes]_vars

(* One account creating, listing and deleting its notes while the clock   *)
(* advances between some requests and stands still between others.        *)
NextList ==
    \/ \E e \in {"a@x"}, p \in {"p1"} : Idle /\ Register(e, p)
    \/ \E p \in BagToSet(pending), s \in {"s1"} : RegisterSave(p, s)
    \/ \E h \in BearerHeaders : Idle /\ ListNotes(h)
    \/ \E h \in BearerHeaders, t \in Titles, c \in Contents :
          Idle /\ Fresh /\ CreateNote(h, t, c)
    \/ \E h \in BearerHeaders, n \in NoteIds : Idle /\ DeleteNote(h, n)
    \/ \E d \in {ResetTTL} : Idle /\ Tick(d)

SpecList == Init /\ [][NextList]_vars

(* Requests in flight together: several registrations of one email, and   *)
(* one account's creates, updates and deletes, each update suspended       *)
(* between its lookup and its save while other requests run.               *)
NextRace ==
    \/ \E e \in {"a@x"}, p \in {"p1"} : Room /\ Register(e, p)
    \/ \E p \in BagToSet(pending), s \in {"s1"} : RegisterSave(p, s)
    \/ \E h \in BearerHeaders, t \in {"t1"}, c \in Contents : Fresh /\ CreateNote(h, t, c)
    \/ \E h \in BearerHeaders, n \in NoteIds, t \in Titles, c \in Contents :
          Room /\ UpdateNote(h, n, t, c)
    \/ \E p \in BagToSet(pending) : UpdateSave(p)
    \/ \E h \in BearerHeaders, n \in NoteIds : DeleteNote(h, n)

SpecRace == Init /\ [][NextRace]_vars

(* Every route, one request at a time. *)
NextAll ==
    \/ \E e \in Emails, p \in {"p1"} : Idle /\ Register(e, p)
    \/ \E p \in BagToSet(pending), s \in {"s1"} : RegisterSave(p, s)
    \/ \E e \in Emails, p \in Passwords : Idle /\ Login(e, p)
    \/ \E e \in Emails : Idle /\ ForgotPassword(e)
    \/ \E t \in issued \cup {Garbage}, p \in {"p2", Missing}, s \in {"s2"} :
          Idle /\ ResetPassword(t, p, s)
    \/ \E h \in BearerHeaders \cup {NoHeader} : Idle /\ Me(h)
    \/ \E h \in BearerHeaders \cup {NoHeader} : Idle /\ ListNotes(h)
    \/ \E h \in BearerHeaders \cup {NoHeader}, t \in {"t1", Missing}, c \in Contents :
          Idle /\ noteSeq < MaxGateNotes /\ CreateNote(h, t, c)
    \/ \E h \in BearerHeaders \cup {NoHeader}, n \in 1..MaxGateNotes, t \in {"t2"}, c \in Contents :
          Idle /\ UpdateNote(h, n, t, c)
    \/ \E p \in BagToSet(pending) : UpdateSave(p)
    \/ \E h \in BearerHeaders \cup {NoHeader}, n \in 1..MaxGateNotes : Idle /\ DeleteNote(h, n)

SpecAll == Init /\ [][NextAll]_vars

(* ================================ claims =============================== *)
ProtectedOps == {"me", "list", "create", "update", "delete"}

(* C1: an update or delete that the gate resolved to an identity other    *)
(* than the owner of the note it names answers 404, carries no note, and   *)
(* leaves the note as it was; no save of a suspended update is ever made   *)
(* for an identity that does not own the note.                             *)
C1_ForeignNoteUntouched ==
    [][\A n \in notes :
          (/\ last'.op \in {"update", "updateSave", "delete"}
           /\ last'.noteId = n.id
           /\ last'.uid # 0
           /\ last'.uid # n.owner)
          => (/\ last'.status = 404
              /\ last'.notes = <<>>
              /\ n \in notes'
              /\ pending' = pending)]_vars

C1_Witness ==
    /\ last.op = "update"
    /\ last.status = 404
    /\ \E n \in notes : n.id = last.noteId /\ last.uid # 0 /\ n.owner # last.uid
                        /\ n.title # last.title

(* What generateToken and the forgot-password handler produce. *)
IsSessionToken(t) ==
    t.email # NoEmail /\ t = jwtSign(t.id, t.email, JWT_SECRET, SessionTTL, t.iat)

IsResetToken(t) == t = jwtSign(t.id, NoEmail, JWT_SECRET, ResetTTL, t.iat)

(* The plaintext a stored secret was made from. *)
PasswordOf(hash) == hash.digest[2]

(* C2: a protected request whose header is absent, is not a Bearer header, *)
(* or carries a token that fails validation is answered 401 without the    *)
(* handler running: no identity is bound, nothing from the stores is in    *)
(* the response, no handler is left suspended, and users and notes are     *)
(* unchanged.                                                              *)
C2_GateBeforeHandler ==
    [][(/\ last'.op \in ProtectedOps
        /\ \/ last'.scheme # "Bearer"
           \/ jwtVerify(last'.cred, JWT_SECRET, now) # "ok")
       => (/\ last'.status = 401
           /\ last'.uid = 0
           /\ last'.user = NoUser
           /\ last'.notes = <<>>
           /\ UNCHANGED <<users, notes, noteSeq, pending>>)]_vars

C2_Witness ==
    /\ last.op = "delete"
    /\ last.status = 401
    /\ last.scheme = "Basic"
    /\ jwtVerify(last.cred, JWT_SECRET, now) = "ok"
    /\ \E n \in notes : n.id = last.noteId /\ n.owner = last.cred.id

(* C3: a session token presented to a protected route after its issue time *)
(* plus the session TTL is answered 401, whatever was done with it before. *)
C3_ExpiredSessionRejected ==
    (/\ last.op \in ProtectedOps
     /\ last.scheme = "Bearer"
     /\ IsSessionToken(last.cred)
     /\ now > last.cred.iat + SessionTTL)
    => (last.status = 401 /\ last.uid = 0)

C3_Witness ==
    /\ last.op = "me"
    /\ last.scheme = "Bearer"
    /\ IsSessionToken(last.cred)
    /\ now > last.cred.iat + SessionTTL
    /\ last.status = 401
    /\ UserFindById(last.cred.id) # {}

(* C4: a reset token presented as the bearer token of a protected route is *)
(* answered 401 and binds no identity.                                     *)
C4_ResetTokenNotACredential ==
    (/\ last.op \in ProtectedOps
     /\ last.scheme = "Bearer"
     /\ IsResetToken(last.cred))
    => (last.status = 401 /\ last.uid = 0)

(* C5: a reset-password call that presents the reset token of the          *)
(* successful reset-password call just before it is refused and changes no *)
(* secret.                                                                 *)
C5_ResetTokenSingleUse ==
    [][(/\ last.op = "reset"
        /\ last.status = 200
        /\ IsResetToken(last.cred)
        /\ last'.op = "reset"
        /\ last'.cred = last.cred)
       => (last'.status # 200 /\ users' = users)]_vars

(* C6: reset-password with both fields present and a token that is         *)
(* malformed, wrongly signed or expired answers 401.                       *)
C6_BadResetTokenIs401 ==
    (/\ last.op = "reset"
     /\ last.password # Missing
     /\ last.cred # NoToken
     /\ jwtVerify(last.cred, JWT_SECRET, now) # "ok")
    => last.status = 401

(* C7: a register request that carries a password and arrives when an      *)
(* identity with its email exists answers 409, whatever the password,      *)
(* creates no identity, changes no secret and leaves no handler suspended. *)
C7_DuplicateRegisterConflicts ==
    [][(/\ last'.op = "register"
        /\ last'.password # Missing
        /\ UserFindByEmail(last'.email) # {})
       => (/\ last'.status = 409
           /\ users' = users
           /\ pending' = pending)]_vars

C7_Witness ==
    /\ last.op = "register"
    /\ last.status = 409
    /\ \E u \in users : u.email = last.email /\ PasswordOf(u.password) # last.password

(* C8: a login with both fields present that names no registered email, or *)
(* names one with another password than its own, gets the one response     *)
(* 401 "Invalid credentials" without token or user, and changes nothing.   *)
C8_LoginFailuresAlike ==
    [][(/\ last'.op = "login"
        /\ last'.email # Missing
        /\ last'.password # Missing
        /\ \A u \in users :
              ~(u.email = last'.email /\ PasswordOf(u.password) = last'.password))
       => (/\ last'.status = 401
           /\ last'.msg = "Invalid credentials"
           /\ last'.token = NoToken
           /\ last'.user = NoUser
           /\ UNCHANGED <<users, notes, noteSeq, now, issued, pending>>)]_vars

C8_Witness ==
    /\ last.op = "login"
    /\ last.status = 401
    /\ \E u \in users : u.email = last.email /\ PasswordOf(u.password) # last.password
    /\ \E e \in Emails : UserFindByEmail(e) = {}

(* C9: forgot-password with a non-empty email answers 200 with the generic *)
(* acknowledgement and nothing else, whether or not an identity has that   *)
(* email, and changes neither users nor notes.                             *)
C9_ForgotAnswersAlike ==
    [][(last'.op = "forgot" /\ last'.email # Missing)
       => (/\ last'.status = 200
           /\ last'.msg = ForgotAck
           /\ last'.token = NoToken
           /\ last'.user = NoUser
           /\ UNCHANGED <<users, notes, noteSeq>>)]_vars

C9_Witness ==
    /\ last.op = "forgot"
    /\ last.status = 200
    /\ \E u \in users : u.email = last.email /\ resetTokenFor(u, now) \in issued
    /\ \E e \in Emails : UserFindByEmail(e) = {}

(* The gate binds identity u for the token now and until it expires. *)
ValidatesTo(token, u) ==
    \A t \in {now, token.exp - 1} :
        LET gate == authMiddleware([scheme |-> "Bearer", token |-> token], t) IN
        gate.pass /\ gate.id = u.id

(* C10: with one request handled at a time, the save of a register request *)
(* answers 201 and creates the identity with that email and password; a    *)
(* login with the email and password of an identity answers 200 with a     *)
(* token that the gate validates to that identity until it expires.        *)
C10_RegisterLoginValidate ==
    [][/\ last'.op = "registerSave"
          => /\ last'.status = 201
             /\ \E u \in users' \ users :
                   /\ u.email = last'.email
                   /\ PasswordOf(u.password) = last'.password
                   /\ last'.user = PublicUser(u)
                   /\ ValidatesTo(last'.token, u)
       /\ (/\ last'.op = "login"
           /\ \E u \in users : u.email = last'.email
                               /\ PasswordOf(u.password) = last'.password)
          => /\ last'.status = 200
             /\ \E u \in users : /\ u.email = last'.email
                                 /\ last'.user = PublicUser(u)
                                 /\ ValidatesTo(last'.token, u)]_vars

C10_Witness ==
    /\ last.op = "login"
    /\ last.status = 200
    /\ \E u \in users : /\ u.email = last.email
                        /\ u.id = 2
                        /\ PasswordOf(u.password) = last.password
                        /\ ValidatesTo(last.token, u)

(* Elements of a sequence. *)
Range(q) == {q[i] : i \in DOMAIN q}

(* C11: a successful list answered to identity A holds every note of the   *)
(* store whose owner is A, each once, and no note owned by anybody else.   *)
C11_ListIsOwnersNotes ==
    (last.op = "list" /\ last.status = 200) =>
        /\ Range(last.notes) = {n \in notes : n.owner = last.uid}
        /\ Len(last.notes) = Cardinality(Range(last.notes))

C11_Witness ==
    /\ last.op = "list" /\ last.status = 200
    /\ Len(last.notes) >= 1
    /\ \E n \in notes : n.owner # last.uid

(* C12: in a successful list every note comes strictly before the next one *)
(* by createdAt, notes created at the same clock value included.           *)
C12_ListStrictlyDescending ==
    (last.op = "list" /\ last.status = 200) =>
        \A i \in 1..(Len(last.notes) - 1) :
            last.notes[i].createdAt > last.notes[i + 1].createdAt

(* C13: whatever else is in flight, every create answered 201 stored a     *)
(* note whose identifier no note holds and none was given before, beside   *)
(* all the notes already stored; and no step other than a delete takes a   *)
(* stored note away.                                                       *)
C13_CreatesDistinctNoneLost ==
    [][/\ (last'.op = "create" /\ last'.status = 201) =>
            \E n \in notes' :
                /\ last'.notes = <<n>>
                /\ \A m \in notes : m.id # n.id
                /\ n.id > noteSeq
                /\ notes' = notes \cup {n}
       /\ last'.op # "delete" =>
            \A m \in notes : \E k \in notes' : k.id = m.id]_vars

C13_Witness ==
    /\ last.op = "create" /\ last.status = 201
    /\ Cardinality(notes) = 2
    /\ \A m, n \in notes : m.owner = n.owner
    /\ \E p \in BagToSet(pending) : p.op = "update"

(* C14: a create that passed the gate with the title or the content empty  *)
(* or missing answers 400 and stores nothing; one with both non-empty      *)
(* answers 201 and stores exactly one more note, with that title and       *)
(* content, owned by the identity the presented token was issued to.       *)
C14_CreateValidatesAndOwns ==
    [][(last'.op = "create" /\ last'.uid # 0) =>
          IF last'.title = Missing \/ last'.content = Missing
          THEN last'.status = 400 /\ notes' = notes /\ last'.notes = <<>>
          ELSE /\ last'.status = 201
               /\ \E n \in notes' \ notes :
                     /\ notes' = notes \cup {n}
                     /\ n.owner = last'.cred.id
                     /\ n.title = last'.title /\ n.content = last'.content
                     /\ last'.notes = <<n>>]_vars

C14_Witness ==
    /\ last.op = "create" /\ last.status = 400
    /\ last.title # Missing /\ last.content = Missing
    /\ last.uid = 2
    /\ \E n \in notes : n.owner = 1

(* C15: whatever the route and its outcome, the identity a response        *)
(* carries has the fields id and email and no other, the notes it carries  *)
(* have the fields of a note, and the token it carries has the fields of a *)
(* token: the stored hash of a password is in none of them.                *)
C15_NoHashInResponses ==
    /\ DOMAIN last.user = {"id", "email"}
    /\ \A i \in DOMAIN last.notes : DOMAIN last.notes[i] = DOMAIN NoNote
    /\ DOMAIN last.token = DOMAIN NoToken
    /\ "password" \notin DOMAIN NoNote \cup DOMAIN NoToken

C15_Witness ==
    /\ last.op = "me" /\ last.status = 200
    /\ \E u \in users : /\ u.id = last.user.id
                        /\ u.email = last.user.email
                        /\ PasswordOf(u.password) = "p2"

C17_RacingRegistersConflict ==
    /\ \A u, v \in users : u.email = v.email => u = v
    /\ last.op \in {"register", "registerSave"} => last.status \in {0, 201, 409}

(* C18: a reset-password request whose token is a session token (one that  *)
(* register or login returned) is never answered 200, and changes no       *)
(* stored password.                                                        *)
C18_SessionTokenNotAResetToken ==
    [][(last'.op = "reset" /\ IsSessionToken(last'.cred)) =>
          last'.status # 200 /\ users' = users]_vars

(* C19: a reset answered 200 replaces the stored secret of the identity    *)
(* its token names by one made from the new password, leaves every other   *)
(* identity as it was, and carries no token and no identity; and a login   *)
(* with a password, for a registered email, answers 200 with a token for   *)
(* that identity when the password is the one the stored secret was made   *)
(* from, and 401 without a token otherwise. So after the reset the old     *)
(* password is refused and the new one accepted.                           *)
C19_ResetRebindsSecret ==
    [][/\ (last'.op = "reset" /\ last'.status = 200) =>
            /\ last'.token = NoToken /\ last'.user = NoUser
            /\ \E u \in users :
                  /\ u.id = last'.cred.id
                  /\ \A v \in users : v.id # u.id => v \in users'
                  /\ \E w \in users' :
                        /\ w.id = u.id /\ w.email = u.email
                        /\ PasswordOf(w.password) = last'.password
                        /\ users' = (users \ {u}) \cup {w}
       /\ \A u \in users :
            (last'.op = "login" /\ last'.email = u.email /\ last'.password # Missing) =>
                IF PasswordOf(u.password) = last'.password
                THEN last'.status = 200 /\ ValidatesTo(last'.token, u)
                ELSE last'.status = 401 /\ last'.token = NoToken]_vars

C19_Witness ==
    /\ last.op = "login" /\ last.status = 401 /\ last.password = "p1"
    /\ \E u \in users : /\ u.email = last.email
                        /\ u.password.salt = "s2"
                        /\ PasswordOf(u.password) = "p2"
    /\ Cardinality(users) = 2

(* C20: with updates suspended between lookup and save while deletes run,  *)
(* a note enters the store only by a create, under an identifier above     *)
(* every one given out before, so a deleted note never comes back; and an  *)
(* update whose save is answered 200 found its note in the store at the    *)
(* save, and the note is there afterwards.                                 *)
C20_DeletedNoteStaysDeleted ==
    [][/\ \A n \in notes : n.id <= noteSeq
       /\ \A m \in notes' :
            \/ \E n \in notes : n.id = m.id
            \/ last'.op = "create" /\ m.id > noteSeq
       /\ (last'.op = "delete" /\ last'.status = 200) =>
            \A m \in notes' : m.id # last'.noteId
       /\ (last'.op = "updateSave" /\ last'.status = 200) =>
            /\ \E n \in notes : n.id = last'.noteId
            /\ \E m \in notes' : m.id = last'.noteId]_vars

C20_Witness ==
    /\ last.op = "updateSave" /\ last.status = 500
    /\ last.noteId <= noteSeq
    /\ \A n \in notes : n.id # last.noteId

=============================================================================
